---- MODULE Spec2Model ----
(***************************************************************************)
(* Model of rasmf.py: rename and store media files.                        *)
(*                                                                         *)
(* A string is a sequence of one-character strings, a path relative to a   *)
(* configured root is a sequence of names.  The string transforms of       *)
(* rasmf.py are operators computed the way Python's str.replace, str.title *)
(* and the re module compute them (greedy, backtracking, leftmost match).  *)
(***************************************************************************)
EXTENDS Naturals, Sequences, FiniteSets

VARIABLES
    \* a call of one of the string functions
    arg1,           \* first argument of the function under call
    arg2,           \* second argument (tv_show_name, tv_show_name_season)
    ret,            \* the value the call returned
    called,         \* which function was called ("none" before the call)
    \* a run of main(), or a direct call of clean_up
    in_files,       \* files under incoming_dir: [dir |-> path, name |-> string]
    in_dirs,        \* directories under incoming_dir, <<>> is incoming_dir
    scandir_order,  \* the order in which os.scandir lists directory names
    library,        \* files under tv_dir and movie_dir: [root, path, src]
    lib_dirs,       \* directories os.makedirs created under tv_dir
    clean_up_list,  \* the module-level list of first-level directories
    listing,        \* files the os.walk loop of main() has still to yield
    pc,             \* "main", "clean_up", "done" or "raised"
    last,           \* what the last iteration of the loop of main() did
    moved,          \* every successful shutil.move so far, in order
    clean_list,     \* candidates the loop of clean_up has still to visit
    first_level_dir,\* the loop variable of clean_up: <<>>, or <<candidate>>
    del_target,     \* the local del_target of clean_up: <<>> while unbound,
                    \* <<path>> once assigned
    removed         \* files shutil.rmtree has deleted

pvars == <<arg1, arg2, ret, called>>
rvars == <<in_files, in_dirs, scandir_order, library, lib_dirs, clean_up_list, listing, pc,
           last, moved, clean_list, first_level_dir, del_target, removed>>
vars == <<arg1, arg2, ret, called, in_files, in_dirs, scandir_order, library,
          lib_dirs, clean_up_list, listing, pc, last, moved, clean_list,
          first_level_dir, del_target, removed>>

(***************************************************************************)
(* Characters                                                              *)
(***************************************************************************)
LowerAlpha ==
    <<"a","b","c","d","e","f","g","h","i","j","k","l","m",
      "n","o","p","q","r","s","t","u","v","w","x","y","z">>

UpperAlpha ==
    <<"A","B","C","D","E","F","G","H","I","J","K","L","M",
      "N","O","P","Q","R","S","T","U","V","W","X","Y","Z">>

Digits == {"0","1","2","3","4","5","6","7","8","9"}

IsLower(c) == \E i \in 1..Len(LowerAlpha) : LowerAlpha[i] = c
IsUpper(c) == \E i \in 1..Len(UpperAlpha) : UpperAlpha[i] = c
IsCased(c) == IsLower(c) \/ IsUpper(c)
IsDigit(c) == c \in Digits

\* str.lower / str.upper on one character
LowerChar(c) ==
    IF IsUpper(c)
    THEN LowerAlpha[CHOOSE i \in 1..Len(UpperAlpha) : UpperAlpha[i] = c]
    ELSE c

UpperChar(c) ==
    IF IsLower(c)
    THEN UpperAlpha[CHOOSE i \in 1..Len(LowerAlpha) : LowerAlpha[i] = c]
    ELSE c

\* str.lower()
Lower(s) == [i \in 1..Len(s) |-> LowerChar(s[i])]

\* str.title(): a cased character is upper-cased when the character before
\* it is not cased (or there is none), lower-cased otherwise.
Title(s) ==
    [i \in 1..Len(s) |->
        IF i > 1 /\ IsCased(s[i-1]) THEN LowerChar(s[i]) ELSE UpperChar(s[i])]

(***************************************************************************)
(* str operations                                                          *)
(***************************************************************************)
\* s[a:b] in 1-based inclusive form; empty when b < a
Slice(s, a, b) == IF b < a THEN <<>> ELSE SubSeq(s, a, b)

\* does sub occur in s starting at index i
MatchAt(s, sub, i) ==
    /\ i >= 1
    /\ i + Len(sub) - 1 <= Len(s)
    /\ \A k \in 1..Len(sub) : s[i + k - 1] = sub[k]

\* `sub in s`
Contains(s, sub) == \E i \in 1..(Len(s) + 1) : MatchAt(s, sub, i)

\* str.replace(old, new) for a non-empty old: non-overlapping occurrences,
\* found scanning left to right, each replaced once (no rescan of the output)
RECURSIVE Replace(_, _, _)
Replace(s, old, new) ==
    IF Len(s) < Len(old) THEN s
    ELSE IF MatchAt(s, old, 1)
         THEN new \o Replace(Slice(s, Len(old) + 1, Len(s)), old, new)
         ELSE <<Head(s)>> \o Replace(Tail(s), old, new)

(***************************************************************************)
(* sanitise_string                                                         *)
(***************************************************************************)
character_list ==
    << <<" ">>, <<"[">>, <<"]">>, <<"(">>, <<")">>, <<"'">>, <<"&">>,
       <<"-", ".">>, <<".", ".">> >>

\* one pass of the for loop body, for the character at index i of the list
SanitiseStep(fname, i) ==
    LET character == character_list[i]
    IN  IF Contains(fname, character)
        THEN IF character = <<"&">>
             THEN Replace(fname, <<"&">>, <<"a", "n", "d">>)
             ELSE Replace(fname, character, <<".">>)
        ELSE fname

RECURSIVE SanitiseLoop(_, _)
SanitiseLoop(fname, i) ==
    IF i > Len(character_list) THEN fname
    ELSE SanitiseLoop(SanitiseStep(fname, i), i + 1)

\* re.sub(r'\.$', r'', fname): one period at the very end is removed
StripTrailingPeriod(fname) ==
    IF Len(fname) > 0 /\ fname[Len(fname)] = "."
    THEN Slice(fname, 1, Len(fname) - 1)
    ELSE fname

sanitise_string(fname) == StripTrailingPeriod(SanitiseLoop(fname, 1))

(***************************************************************************)
(* Regular-expression helpers.  `.` never meets a newline here: names hold *)
(* none.  A greedy `^.*` in front of a pattern makes re pick the match of  *)
(* the pattern that starts furthest to the right.                          *)
(***************************************************************************)
IsS(c) == c \in {"s", "S"}
IsE(c) == c \in {"e", "E"}
IsSep(c) == c \in {"-", ".", "_"}

\* the largest element of a non-empty set of naturals
Max(S) == CHOOSE x \in S : \A y \in S : y <= x

\* [0-9]+ starting at i, greedy: index of the last digit of the run, 0 if
\* s[i] is no digit
DigitRunEnd(s, i) ==
    IF i < 1 \/ i > Len(s) \/ ~IsDigit(s[i]) THEN 0
    ELSE Max({j \in i..Len(s) : \A k \in i..j : IsDigit(s[k])})

\* [sS][0-9]+ anchored at i: index of its last character, 0 without a match
SeasonEnd(s, i) ==
    IF i >= 1 /\ i <= Len(s) /\ IsS(s[i]) THEN DigitRunEnd(s, i + 1) ELSE 0

\* [sS][0-9]+[eE][0-9]+ anchored at i: index of its last character, 0
\* without a match
SeasonEpisodeEnd(s, i) ==
    LET d == SeasonEnd(s, i)
    IN  IF d # 0 /\ d + 1 <= Len(s) /\ IsE(s[d + 1])
        THEN DigitRunEnd(s, d + 2)
        ELSE 0

\* [0-9][0-9][0-9][0-9] anchored at i: index of its last character, or 0
YearEnd(s, i) ==
    IF i >= 1 /\ i + 3 <= Len(s) /\ \A k \in i..(i + 3) : IsDigit(s[k])
    THEN i + 3
    ELSE 0

\* re.search(r'[sS][0-9]+[eE][0-9]+', s)
SearchSeasonEpisode(s) == \E i \in 1..Len(s) : SeasonEpisodeEnd(s, i) # 0

\* re.search(r'[0-9][0-9][0-9][0-9]', s)
SearchYear(s) == \E i \in 1..Len(s) : YearEnd(s, i) # 0

\* re.search(r'^[sS][0-9]+', s)
StartsWithSeason(s) == SeasonEnd(s, 1) # 0

(***************************************************************************)
(* split_on_year, split_on_season                                          *)
(***************************************************************************)
\* the (^.*X).* substitutions: i ranges over the starts of X
YearStarts(fname) == {i \in 1..Len(fname) : YearEnd(fname, i) # 0}

SeasonEpisodeStarts(fname) ==
    {i \in 1..Len(fname) : SeasonEpisodeEnd(fname, i) # 0}

\* the leftmost start: what a lazy ^.*? would pick
Min(S) == CHOOSE x \in S : \A y \in S : x <= y

split_on_year_leftmost(fname) ==
    IF YearStarts(fname) = {} THEN fname
    ELSE Slice(fname, 1, YearEnd(fname, Min(YearStarts(fname))))

\* re.sub(r'(^.*[0-9][0-9][0-9][0-9]).*', r'\1', fname)
split_on_year(fname) ==
    IF YearStarts(fname) = {} THEN fname
    ELSE Slice(fname, 1, YearEnd(fname, Max(YearStarts(fname))))

\* re.sub(r'(^.*[sS][0-9]+[eE][0-9]+).*$', r'\1', fname)
split_on_season(fname) ==
    IF SeasonEpisodeStarts(fname) = {} THEN fname
    ELSE Slice(fname, 1,
               SeasonEpisodeEnd(fname, Max(SeasonEpisodeStarts(fname))))

(***************************************************************************)
(* lower_splitext, relative_path                                           *)
(***************************************************************************)
\* os.path.splitext on a name without a directory part: the extension runs
\* from the last period, unless only periods come before it
SplitAt(p) ==
    LET dots == {i \in 1..Len(p) : p[i] = "."}
    IN  IF dots = {} THEN 0
        ELSE IF \E k \in 1..(Max(dots) - 1) : p[k] # "." THEN Max(dots)
        ELSE 0

SplitextRoot(p) == IF SplitAt(p) = 0 THEN p ELSE Slice(p, 1, SplitAt(p) - 1)
SplitextExt(p) == IF SplitAt(p) = 0 THEN <<>> ELSE Slice(p, SplitAt(p), Len(p))

\* lower_splitext(filename) = os.path.splitext(filename.lower())
lower_splitext(filename) ==
    <<SplitextRoot(Lower(filename)), SplitextExt(Lower(filename))>>

relative_path_last(source_dir) ==
    IF source_dir = <<>> THEN <<>> ELSE source_dir[Len(source_dir)]

\* relative_path(full_path, base_path), with full_path given as the
\* sequence of names below base_path: '' for base_path itself (relpath
\* '.'), the first name otherwise
relative_path(source_dir) ==
    IF source_dir = <<>> THEN <<>> ELSE source_dir[1]

(***************************************************************************)
(* tv_show_name, tv_show_name_season                                       *)
(***************************************************************************)
\* starts i of [-._][sS][0-9]+ in s
SepSeasonStarts(s) ==
    {i \in 1..Len(s) : IsSep(s[i]) /\ SeasonEnd(s, i + 1) # 0}

\* starts i of [-_.][Ss][0-9]+[Ee][0-9]+ in s
SepSeasonEpisodeStarts(s) ==
    {i \in 1..Len(s) : IsSep(s[i]) /\ SeasonEpisodeEnd(s, i + 1) # 0}

\* re.sub(r'(^.*)[-._][sS][0-9]+', r'\1', first_dir): the pattern ends at
\* the season token, so what follows the token stays in the string
StripDirSeason(first_dir) ==
    IF SepSeasonStarts(first_dir) = {} THEN first_dir
    ELSE LET i == Max(SepSeasonStarts(first_dir))
         IN  Slice(first_dir, 1, i - 1)
             \o Slice(first_dir, SeasonEnd(first_dir, i + 1) + 1, Len(first_dir))

\* re.sub(r'(^.*)[-_.][Ss][0-9]+[Ee][0-9]+.*$', r'\1', fname)
StripNameSeasonEpisode(fname) ==
    IF SepSeasonEpisodeStarts(fname) = {} THEN fname
    ELSE Slice(fname, 1, Max(SepSeasonEpisodeStarts(fname)) - 1)

tv_show_name(first_dir, fname) ==
    IF StartsWithSeason(fname)
    THEN StripDirSeason(Title(sanitise_string(first_dir)))
    ELSE StripNameSeasonEpisode(fname)

SeasonStarts(fname) == {i \in 1..Len(fname) : SeasonEnd(fname, i) # 0}

\* the token that starts furthest to the left: what a lazy ^.*? would capture
SeasonTokenFirst(fname) ==
    IF SeasonStarts(fname) = {} THEN fname
    ELSE LET i == Min(SeasonStarts(fname))
         IN  Slice(fname, i, SeasonEnd(fname, i))

\* re.sub(r'^.*([Ss][0-9]+).*$', r'\1', fname)
SeasonToken(fname) ==
    IF SeasonStarts(fname) = {} THEN fname
    ELSE LET i == Max(SeasonStarts(fname))
         IN  Slice(fname, i, SeasonEnd(fname, i))

tv_show_name_season(sname, fname) == sname \o <<"-">> \o SeasonToken(fname)

(***************************************************************************)
(* Configuration (config.ini).  configparser values are strings, so the    *)
(* `in` tests on them are substring tests.                                 *)
(***************************************************************************)
video_file_extensions == <<".", "v">>
audio_file_extensions == <<".", "m">>
doc_extensions == <<".", "d">>
other_extensions == <<".", "o">>

(***************************************************************************)
(* The file system: paths are sequences of names below a configured root.  *)
(***************************************************************************)
IsPrefix(p, q) == Len(p) <= Len(q) /\ SubSeq(q, 1, Len(p)) = p

Range(s) == {s[i] : i \in 1..Len(s)}

Perms(S) ==
    {p \in [1..Cardinality(S) -> S] :
        \A i, j \in 1..Cardinality(S) : p[i] = p[j] => i = j}

Children(dirs, d) ==
    {x \in dirs : Len(x) = Len(d) + 1 /\ IsPrefix(d, x)}

\* the subdirectories of d in the order os.scandir lists them
ScandirRank(name) ==
    CHOOSE i \in 1..Len(scandir_order) : scandir_order[i] = name

ListedChildren(dirs, d) ==
    CHOOSE p \in Perms(Children(dirs, d)) :
        \A i, j \in 1..Len(p) :
            i < j => ScandirRank(p[i][Len(d) + 1]) < ScandirRank(p[j][Len(d) + 1])

\* os.walk(top, topdown=False): the order in which the directories of the
\* tree are yielded: the subtree of every subdirectory, in the order scandir
\* lists the subdirectories, then top itself
RECURSIVE PostOrder(_, _), PostOrderOfEach(_, _)
PostOrder(dirs, top) ==
    PostOrderOfEach(dirs, ListedChildren(dirs, top)) \o <<top>>

PostOrderOfEach(dirs, dseq) ==
    IF dseq = <<>> THEN <<>>
    ELSE PostOrder(dirs, Head(dseq)) \o PostOrderOfEach(dirs, Tail(dseq))

FilesIn(files, d) == {f \in files : f.dir = d}

\* the orders in which the two nested loops of main() meet the files
RECURSIVE FileOrders(_, _)
FileOrders(files, dseq) ==
    IF dseq = <<>> THEN {<<>>}
    ELSE {a \o b : a \in Perms(FilesIn(files, Head(dseq))),
                   b \in FileOrders(files, Tail(dseq))}

WalkListings(files, dirs) == FileOrders(files, PostOrder(dirs, <<>>))

\* shutil.rmtree(target)
RmtreeFiles(files, target) == {f \in files : ~IsPrefix(target, f.dir)}
RmtreeDirs(dirs, target) == {d \in dirs : ~IsPrefix(target, d)}

(***************************************************************************)
(* main(): the loop over the files of incoming_dir                         *)
(***************************************************************************)
NoFile == [dir |-> <<>>, name |-> <<>>]
NoLast == [kind |-> "start", file |-> NoFile, moved |-> FALSE, target |-> <<>>]

\* os.path.splitext(full_filename)[1].replace('.', '').lower()
FileExtension(full_filename) ==
    Lower(Replace(SplitextExt(full_filename), <<".">>, <<>>))

\* file_extension in config['file_extensions']['video']
IsVideo(full_filename) ==
    Contains(video_file_extensions, FileExtension(full_filename))

\* process_tv_show_file: lines 194-197
TvFilename(source_filename) ==
    Title(split_on_season(sanitise_string(lower_splitext(source_filename)[1])))

\* process_tv_show_file: lines 199-204, target_dir below base_tv_dir
TvTargetDir(source_dir, source_filename) ==
    LET tv_filename == TvFilename(source_filename)
        show_name == tv_show_name(relative_path(source_dir), tv_filename)
    IN  <<show_name, tv_show_name_season(show_name, tv_filename)>>

TvTargetPathKeepCase(source_dir, source_filename) ==
    TvTargetDir(source_dir, source_filename)
        \o <<TvFilename(source_filename) \o SplitextExt(source_filename)>>

\* process_tv_show_file: line 210, target_path below base_tv_dir
TvTargetPath(source_dir, source_filename) ==
    TvTargetDir(source_dir, source_filename)
        \o <<TvFilename(source_filename) \o lower_splitext(source_filename)[2]>>

\* process_movie_file: lines 232-237, target_path below base_movie_dir
MovieTargetPath(source_filename, file_extension) ==
    << Title(split_on_year(sanitise_string(source_filename)))
           \o <<".">> \o file_extension >>

\* shutil.move(source_path, target_path) that succeeded: the file leaves its
\* source path and is at the target path, replacing a file already there
MoveDone(f, root, path) ==
    /\ in_files' = in_files \ {f}
    /\ library' = {e \in library : ~(e.root = root /\ e.path = path)}
                      \cup {[root |-> root, path |-> path, src |-> f]}
    /\ moved' = Append(moved, [file |-> f, root |-> root, path |-> path])

\* shutil.move that raised OSError: caught, nothing has moved
MoveFailed == UNCHANGED <<in_files, library, moved>>

AppendAlways(clean_up_item, ok) == Append(clean_up_list, clean_up_item)

\* video_file, lines 171-172 and 181-182: clean_up_item is first_relpath
\* after a move that succeeded and None after one that failed; None and ''
\* are both falsy
AppendCleanUpItem(clean_up_item, ok) ==
    IF ok /\ clean_up_item # <<>>
    THEN Append(clean_up_list, clean_up_item)
    ELSE clean_up_list

(***************************************************************************)
(* The files a tree can hold                                               *)
(***************************************************************************)
DirA == <<"a", "-", "s", "1">>
DirB == <<"b", " ", "s", "2", ".", "x">>
DirT == <<"t">>
DirGone == <<"g">>

NameLeadingSeason == <<"s", "1", "e", "1", ".", "v">>
NameUpper == <<"a", ".", "S", "1", "E", "1", ".", "V">>
NameRelease == <<"a", ".", "s", "1", "e", "1", ".", "x", ".", "v">>
NameMovie == <<"b", " ", "2", "0", "0", "1", ".", "v">>
NameYearAndSeason == <<"2", "0", "0", "1", ".", "s", "1", "e", "2", ".", "v">>
NamePlainVideo == <<"c", ".", "v">>
NameDoc == <<"n", ".", "d">>
NameJunk == <<"j", ".", "z">>

TreeDirNames == {DirA, DirB, DirT}

File(d, n) == [dir |-> d, name |-> n]

FilePool ==
    { File(<<>>, NameUpper), File(<<>>, NameMovie), File(<<>>, NamePlainVideo),
      File(<<DirA>>, NameLeadingSeason), File(<<DirA>>, NameUpper),
      File(<<DirA>>, NameRelease), File(<<DirA>>, NameDoc),
      File(<<DirA>>, NameJunk),
      File(<<DirA, DirT>>, NameLeadingSeason),
      File(<<DirA, DirT>>, NameYearAndSeason), File(<<DirA, DirT>>, NameDoc),
      File(<<DirB>>, NameLeadingSeason), File(<<DirB>>, NameMovie),
      File(<<DirB>>, NameRelease) }

TreeFilePool ==
    { File(d, n) : d \in { <<DirA>>, <<DirA, DirT>>, <<DirB>>, <<DirB, DirT>> },
                   n \in { NamePlainVideo, NameDoc, NameJunk } }

\* the target paths of the files above, computed once
TvTargetDirOf ==
    [f \in FilePool |-> TvTargetDir(f.dir, f.name)]
TvTargetPathOf ==
    [f \in FilePool |-> TvTargetPath(f.dir, f.name)]
MovieTargetPathOf ==
    [f \in FilePool |-> MovieTargetPath(f.name, FileExtension(f.name))]

Current == Head(listing)

LoopStep(kind, f, ok, path) ==
    /\ listing' = Tail(listing)
    /\ last' = [kind |-> kind, file |-> f, moved |-> ok, target |-> path]
    /\ UNCHANGED <<in_dirs, scandir_order, pc, clean_list, first_level_dir, del_target,
                   removed>>
    /\ UNCHANGED pvars

\* line 352: a file without a video extension is passed over
SkipFile ==
    /\ pc = "main" /\ listing # <<>>
    /\ ~IsVideo(Current.name)
    /\ LoopStep("skipped", Current, FALSE, <<>>)
    /\ UNCHANGED <<in_files, library, lib_dirs, moved, clean_up_list>>

\* video_file, line 166: the first test
TvBranch(full_filename) == SearchSeasonEpisode(full_filename)

MovieBranchIf(full_filename) == SearchYear(full_filename)

\* video_file, line 176: the elif
MovieBranch(full_filename) ==
    ~SearchSeasonEpisode(full_filename) /\ SearchYear(full_filename)


\* video_file, TV branch, with process_tv_show_file: the move succeeds or
\* raises OSError, as the file system decides
VideoFileTv ==
    /\ pc = "main" /\ listing # <<>>
    /\ IsVideo(Current.name)
    /\ TvBranch(Current.name)
    /\ \E ok \in BOOLEAN :
          LET f == Current
              target_dir == TvTargetDirOf[f]
              target_path == TvTargetPathOf[f]
          IN  /\ lib_dirs' = lib_dirs \cup {<<target_dir[1]>>, target_dir}
              /\ IF ok THEN MoveDone(f, "tv", target_path) ELSE MoveFailed
              /\ clean_up_list' = AppendCleanUpItem(relative_path(f.dir), ok)
              /\ LoopStep("tv", f, ok, target_path)

\* process_tv_show_file, lines 206-207: os.makedirs is outside the try, an
\* OSError it raises ends the run
VideoFileTvMakedirsRaises ==
    /\ pc = "main" /\ listing # <<>>
    /\ IsVideo(Current.name)
    /\ TvBranch(Current.name)
    /\ TvTargetDirOf[Current] \notin lib_dirs
    /\ pc' = "OSError"
    /\ last' = [kind |-> "tv", file |-> Current, moved |-> FALSE,
                target |-> <<>>]
    /\ UNCHANGED <<in_files, in_dirs, scandir_order, library, lib_dirs,
                   clean_up_list, listing, moved, clean_list, first_level_dir,
                   del_target, removed>>
    /\ UNCHANGED pvars

\* video_file, movie branch, with process_movie_file
VideoFileMovie ==
    /\ pc = "main" /\ listing # <<>>
    /\ IsVideo(Current.name)
    /\ MovieBranch(Current.name)
    /\ \E ok \in BOOLEAN :
          LET f == Current
              target_path == MovieTargetPathOf[f]
          IN  /\ IF ok THEN MoveDone(f, "movie", target_path) ELSE MoveFailed
              /\ clean_up_list' = AppendCleanUpItem(relative_path(f.dir), ok)
              /\ LoopStep("movie", f, ok, target_path)
              /\ UNCHANGED lib_dirs

\* video_file when neither regular expression matches: nothing is done
VideoFileNone ==
    /\ pc = "main" /\ listing # <<>>
    /\ IsVideo(Current.name)
    /\ ~TvBranch(Current.name) /\ ~MovieBranch(Current.name)
    /\ LoopStep("none", Current, FALSE, <<>>)
    /\ UNCHANGED <<in_files, library, lib_dirs, moved, clean_up_list>>

(***************************************************************************)
(* clean_up                                                                *)
(***************************************************************************)
\* lines 292-298: the lower-cased extension, with its period, is looked up
\* in the four configured strings
KnownExtension(full_filename) ==
    LET file_extension == SplitextExt(Lower(full_filename))
    IN  \/ Contains(video_file_extensions, file_extension)
        \/ Contains(audio_file_extensions, file_extension)
        \/ Contains(doc_extensions, file_extension)
        \/ Contains(other_extensions, file_extension)

\* lines 285-301: dir_can_be_deleted after the directories of walk have been
\* met in this order, starting from flag
RECURSIVE WalkFlag(_, _, _)
WalkFlag(files, walk, flag) ==
    IF walk = <<>> THEN flag
    ELSE LET here == FilesIn(files, Head(walk))
             next == IF here # {}
                     THEN IF \E f \in here : KnownExtension(f.name)
                          THEN FALSE
                          ELSE flag
                     ELSE TRUE
         IN  WalkFlag(files, Tail(walk), next)

\* lines 277-301: dir_can_be_deleted for target
DirCanBeDeleted(files, dirs, target) ==
    IF FilesIn(files, target) = {} /\ Children(dirs, target) = {}
    THEN TRUE
    ELSE WalkFlag(files, PostOrder(dirs, target), FALSE)

\* line 356 of main(), lines 258-270 of clean_up
CallCleanUp ==
    /\ pc = "main" /\ listing = <<>>
    /\ clean_list' = Range(clean_up_list)
    /\ pc' = IF clean_up_list = <<>> THEN "done" ELSE "clean_up"
    /\ UNCHANGED <<in_files, in_dirs, scandir_order, library, lib_dirs,
                   clean_up_list, listing, last, moved, first_level_dir,
                   del_target, removed>>
    /\ UNCHANGED pvars

\* lines 274-275: del_target is assigned only for a non-empty candidate
NextDelTarget(candidate) ==
    IF candidate # <<>> THEN << <<candidate>> >> ELSE del_target

IterDone(candidate) ==
    /\ clean_list' = clean_list \ {candidate}
    /\ first_level_dir' = <<candidate>>
    /\ del_target' = NextDelTarget(candidate)
    /\ UNCHANGED <<scandir_order, library, lib_dirs, clean_up_list, listing,
                   last, moved>>
    /\ UNCHANGED pvars

\* one iteration of the loop of clean_up (lines 272-306) that ends normally;
\* the set is iterated in an arbitrary order
CleanUpIter ==
    /\ pc = "clean_up"
    /\ \E candidate \in clean_list :
          /\ NextDelTarget(candidate) # <<>>
          /\ NextDelTarget(candidate)[1] \in in_dirs
          /\ LET target == NextDelTarget(candidate)[1]
             IN  IF DirCanBeDeleted(in_files, in_dirs, target)
                    THEN /\ in_files' = RmtreeFiles(in_files, target)
                         /\ in_dirs' = RmtreeDirs(in_dirs, target)
                         /\ removed' = removed \cup
                                (in_files \ RmtreeFiles(in_files, target))
                    ELSE UNCHANGED <<in_files, in_dirs, removed>>
          /\ IterDone(candidate)
          /\ pc' = IF clean_list \ {candidate} = {} THEN "done" ELSE "clean_up"

\* line 279 with del_target never assigned: the empty candidate came first
CleanUpUnbound ==
    /\ pc = "clean_up"
    /\ \E candidate \in clean_list :
          /\ NextDelTarget(candidate) = <<>>
          /\ IterDone(candidate)
    /\ pc' = "UnboundLocalError"
    /\ UNCHANGED <<in_files, in_dirs, removed>>

\* line 279, os.listdir of a directory that does not exist
CleanUpNotFound ==
    /\ pc = "clean_up"
    /\ \E candidate \in clean_list :
          /\ NextDelTarget(candidate) # <<>>
          /\ NextDelTarget(candidate)[1] \notin in_dirs
          /\ IterDone(candidate)
    /\ pc' = "FileNotFoundError"
    /\ UNCHANGED <<in_files, in_dirs, removed>>

(***************************************************************************)
(* Runs of main(): the incoming tree is drawn from a pool of files, at     *)
(* most MaxFiles of them, with or without an empty subdirectory.           *)
(***************************************************************************)
MaxFiles == 2
MaxTreeFiles == 2
MaxCandidates == 2

EmptyDirPool == { <<DirA, DirT>> }

\* the directories a tree holds: incoming_dir, every directory on the way
\* to a file, and the empty directories chosen
Prefixes(d) == {SubSeq(d, 1, k) : k \in 0..Len(d)}
TreeDirs(files, extra) ==
    UNION {Prefixes(f.dir) : f \in files} \cup UNION {Prefixes(d) : d \in extra}
        \cup {<<>>}

CallIdle == arg1 = <<>> /\ arg2 = <<>> /\ ret = <<>> /\ called = "none"

Init ==
    /\ CallIdle
    /\ \E files \in SUBSET FilePool, extra \in SUBSET EmptyDirPool :
          /\ Cardinality(files) <= MaxFiles
          /\ in_files = files
          /\ in_dirs = TreeDirs(files, extra)
    /\ scandir_order \in Perms(TreeDirNames)
    /\ listing \in WalkListings(in_files, in_dirs)
    /\ library = {} /\ lib_dirs = {}
    /\ clean_up_list = <<>>
    /\ pc = "main"
    /\ last = NoLast /\ moved = <<>>
    /\ clean_list = {} /\ first_level_dir = <<>> /\ del_target = <<>>
    /\ removed = {}

Next ==
    \/ SkipFile
    \/ VideoFileTv
    \/ VideoFileTvMakedirsRaises
    \/ VideoFileMovie
    \/ VideoFileNone
    \/ CallCleanUp
    \/ CleanUpIter

Spec == Init /\ [][Next]_vars

\* Why Next has neither CleanUpUnbound nor CleanUpNotFound: video_file
\* appends only non-empty names of first-level directories that exist, and
\* clean_up visits each once, so line 279 raises in no run of main().
RunCandidatesExist ==
    pc = "clean_up" =>
        \A candidate \in clean_list :
            candidate # <<>> /\ <<candidate>> \in in_dirs

(***************************************************************************)
(* clean_up called on its own, as the test suite calls it: any tree of at  *)
(* most MaxTreeFiles files, any list of at most MaxCandidates candidates.  *)
(***************************************************************************)
TreeEmptyDirPool == { <<DirA, DirT>>, <<DirB>>, <<DirA, DirB>> }

Candidates == { <<>>, DirA, DirB, DirGone }

InitCleanUp ==
    /\ CallIdle
    /\ \E files \in SUBSET TreeFilePool, extra \in SUBSET TreeEmptyDirPool :
          /\ Cardinality(files) <= MaxTreeFiles
          /\ in_files = files
          /\ in_dirs = TreeDirs(files, extra)
    /\ scandir_order \in Perms(TreeDirNames)
    /\ clean_up_list \in UNION {[1..k -> Candidates] : k \in 0..MaxCandidates}
    /\ listing = <<>>
    /\ library = {} /\ lib_dirs = {}
    /\ pc = "main"
    /\ last = NoLast /\ moved = <<>>
    /\ clean_list = {} /\ first_level_dir = <<>> /\ del_target = <<>>
    /\ removed = {}

NextCleanUp ==
    \/ CallCleanUp
    \/ CleanUpIter
    \/ CleanUpUnbound
    \/ CleanUpNotFound

SpecCleanUp == InitCleanUp /\ [][NextCleanUp]_vars

(***************************************************************************)
(* Calls of the string functions on their own: the arguments are drawn     *)
(* from bounded sets of strings, built by concatenating up to a bounded    *)
(* number of tokens.                                                       *)
(***************************************************************************)
RECURSIVE Flatten(_)
Flatten(ts) == IF ts = <<>> THEN <<>> ELSE Head(ts) \o Flatten(Tail(ts))

TokenStrings(T, n) == {Flatten(ts) : ts \in UNION {[1..k -> T] : k \in 0..n}}

MaxSanLen == 4
MaxSplitTok == 4
MaxNameTok == 3

SanTokens ==
    { <<" ">>, <<"[">>, <<"]">>, <<"(">>, <<")">>, <<"'">>, <<"&">>,
      <<"-">>, <<".">>, <<"a">> }

SplitTokens ==
    { <<"1">>, <<"x">>, <<"S">>, <<"e">>, <<"2", "0", "0", "1">>,
      <<"s", "1", "E", "2">> }

NameTokens ==
    { <<"S", "1">>, <<"E", "2">>, <<"s", "3">>, <<"4">>, <<"x">>, <<".">> }

DirNames ==
    { <<>>,
      <<"a">>,
      <<"a", "-", "s", "1">>,
      <<"a", "-", "S", "1", ".", "x">>,
      <<"a", " ", "s", "1", "2", " ", "b">>,
      <<"a", ".", "s", "1", "_", "S", "2", "x">>,
      <<"a", "s", "1">>,
      <<"-", "s", "1", "e", "1">> }

\* the run's variables while only a string function is called
RunIdle ==
    /\ in_files = {} /\ in_dirs = {<<>>} /\ scandir_order = <<>>
    /\ library = {} /\ lib_dirs = {}
    /\ clean_up_list = <<>> /\ listing = <<>> /\ pc = "idle"
    /\ last = NoLast /\ moved = <<>> /\ clean_list = {}
    /\ first_level_dir = <<>> /\ del_target = <<>> /\ removed = {}

CallInit(A1, A2) ==
    /\ arg1 \in A1 /\ arg2 \in A2
    /\ ret = <<>> /\ called = "none"
    /\ RunIdle

Call(name, value) ==
    /\ called = "none"
    /\ called' = name
    /\ ret' = value
    /\ UNCHANGED <<arg1, arg2>>
    /\ UNCHANGED rvars

CallSanitiseString == Call("sanitise_string", sanitise_string(arg1))
CallSplitOnYear == Call("split_on_year", split_on_year(arg1))
CallSplitOnSeason == Call("split_on_season", split_on_season(arg1))
CallTvShowName == Call("tv_show_name", tv_show_name(arg1, arg2))
CallTvShowNameSeason ==
    Call("tv_show_name_season", tv_show_name_season(arg1, arg2))

InitSanitise == CallInit(TokenStrings(SanTokens, MaxSanLen), {<<>>})
SpecSanitise == InitSanitise /\ [][CallSanitiseString]_vars

InitSplit == CallInit(TokenStrings(SplitTokens, MaxSplitTok), {<<>>})
NextSplit == CallSplitOnYear \/ CallSplitOnSeason
SpecSplit == InitSplit /\ [][NextSplit]_vars

InitShow == CallInit(DirNames, TokenStrings(NameTokens, MaxNameTok))
NextShow == CallTvShowName \/ CallTvShowNameSeason
SpecShow == InitShow /\ [][NextShow]_vars

(***************************************************************************)
(* Claims about the string functions                                       *)
(***************************************************************************)
\* C6: sanitise_string is idempotent: applied to its own output it returns
\* that output unchanged, for every input string.
C6_Idempotent ==
    called = "sanitise_string" => sanitise_string(ret) = ret

\* C7: the output of sanitise_string holds no space, no square bracket, no
\* parenthesis, no single quote and no ampersand, and does not end with a
\* period.
C7_CleanOutput ==
    called = "sanitise_string" =>
        /\ \A i \in 1..Len(ret) :
              ret[i] \notin {" ", "[", "]", "(", ")", "'", "&"}
        /\ (ret = <<>> \/ ret[Len(ret)] # ".")

\* does a run of four digits end at index k of s
FourDigitsEndAt(s, k) ==
    k >= 4 /\ k <= Len(s) /\ \A j \in (k - 3)..k : IsDigit(s[j])

\* C8 as stated: the cut point is the end of the FIRST qualifying
\* occurrence, scanning left to right: split_on_year returns the prefix up
\* to the end of four digits of the first run of digits that holds four,
\* split_on_season the prefix up to the end of the first S<digits>E<digits>
\* match; without an occurrence the input is returned unchanged.
C8_FirstOccurrence ==
    /\ called = "split_on_year" =>
          IF \E k \in 1..Len(arg1) : FourDigitsEndAt(arg1, k)
          THEN \E k \in 1..Len(arg1) :
                  /\ FourDigitsEndAt(arg1, k)
                  /\ \A m \in 1..(k - 1) :
                        FourDigitsEndAt(arg1, m) =>
                            \A j \in m..k : IsDigit(arg1[j])
                  /\ ret = Slice(arg1, 1, k)
          ELSE ret = arg1
    /\ called = "split_on_season" =>
          IF \E i \in 1..Len(arg1) : SeasonEpisodeEnd(arg1, i) # 0
          THEN \E i \in 1..Len(arg1) :
                  /\ SeasonEpisodeEnd(arg1, i) # 0
                  /\ \A j \in 1..(i - 1) : SeasonEpisodeEnd(arg1, j) = 0
                  /\ ret = Slice(arg1, 1, SeasonEpisodeEnd(arg1, i))
          ELSE ret = arg1

\* C8 amended: the cut point is the end of the LAST qualifying occurrence:
\* split_on_year returns the prefix up to the last index at which four
\* consecutive digits end, split_on_season the prefix up to the end of the
\* S<digits>E<digits> match that starts furthest to the right; without an
\* occurrence the input is returned unchanged.
C8_LastOccurrence ==
    /\ called = "split_on_year" =>
          IF \E k \in 1..Len(arg1) : FourDigitsEndAt(arg1, k)
          THEN \E k \in 1..Len(arg1) :
                  /\ FourDigitsEndAt(arg1, k)
                  /\ \A m \in (k + 1)..Len(arg1) : ~FourDigitsEndAt(arg1, m)
                  /\ ret = Slice(arg1, 1, k)
          ELSE ret = arg1
    /\ called = "split_on_season" =>
          IF \E i \in 1..Len(arg1) : SeasonEpisodeEnd(arg1, i) # 0
          THEN \E i \in 1..Len(arg1) :
                  /\ SeasonEpisodeEnd(arg1, i) # 0
                  /\ \A j \in (i + 1)..Len(arg1) : SeasonEpisodeEnd(arg1, j) = 0
                  /\ ret = Slice(arg1, 1, SeasonEpisodeEnd(arg1, i))
          ELSE ret = arg1

\* C8 witness: split_on_year was called on a string holding two runs of four
\* digits with other text between and after them, and cut after the second.
C8_Witness ==
    /\ called = "split_on_year"
    /\ \E k, m \in 1..Len(arg1) :
          /\ FourDigitsEndAt(arg1, k) /\ FourDigitsEndAt(arg1, m)
          /\ k + 4 < m /\ m < Len(arg1)
          /\ \E j \in (k + 1)..(m - 4) : ~IsDigit(arg1[j])
          /\ ret = Slice(arg1, 1, m)

\* C10: when the filename starts with S<digits>, tv_show_name returns the
\* sanitised, title-cased directory name cut in front of its
\* separator-plus-S<digits> suffix, so that nothing located after the season
\* token remains; a directory name without such a suffix is returned
\* unchanged (sanitised and title-cased).
C10_SuffixRemoved ==
    (called = "tv_show_name" /\ StartsWithSeason(arg2)) =>
        LET d == Title(sanitise_string(arg1))
        IN  IF SepSeasonStarts(d) = {}
            THEN ret = d
            ELSE \E i \in SepSeasonStarts(d) : ret = Slice(d, 1, i - 1)

\* s[i..j] is an S<digits> token of s: the letter S in either case, then
\* every digit that follows it, at least one
IsSeasonTokenAt(s, i, j) ==
    /\ 1 <= i /\ i < j /\ j <= Len(s)
    /\ s[i] \in {"s", "S"}
    /\ \A k \in (i + 1)..j : s[k] \in Digits
    /\ (j = Len(s) \/ s[j + 1] \notin Digits)

HasSeasonToken(s) == \E i, j \in 1..Len(s) : IsSeasonTokenAt(s, i, j)

\* C11 as stated: tv_show_name_season returns show_name + '-' + the FIRST
\* S<digits> token of the filename, with all of its digits and in its own
\* case, also when the filename holds several tokens; without a token it
\* returns show_name + '-' + the whole filename.
C11_FirstToken ==
    called = "tv_show_name_season" =>
        IF HasSeasonToken(arg2)
        THEN \E i, j \in 1..Len(arg2) :
                /\ IsSeasonTokenAt(arg2, i, j)
                /\ \A m \in 1..(i - 1), n \in 1..Len(arg2) :
                      ~IsSeasonTokenAt(arg2, m, n)
                /\ ret = arg1 \o <<"-">> \o Slice(arg2, i, j)
        ELSE ret = arg1 \o <<"-">> \o arg2

\* C11 amended: tv_show_name_season returns show_name + '-' + the LAST
\* S<digits> token of the filename (the one that starts furthest to the
\* right), with all of its digits and in its own case; without a token it
\* returns show_name + '-' + the whole filename.
C11_LastToken ==
    called = "tv_show_name_season" =>
        IF HasSeasonToken(arg2)
        THEN \E i, j \in 1..Len(arg2) :
                /\ IsSeasonTokenAt(arg2, i, j)
                /\ \A m \in (i + 1)..Len(arg2), n \in 1..Len(arg2) :
                      ~IsSeasonTokenAt(arg2, m, n)
                /\ ret = arg1 \o <<"-">> \o Slice(arg2, i, j)
        ELSE ret = arg1 \o <<"-">> \o arg2

\* C11 witness: the filename holds two tokens that differ, the second in
\* lower case and with two digits, and the second was returned whole after
\* a non-empty show name.
C11_Witness ==
    /\ called = "tv_show_name_season"
    /\ arg1 # <<>>
    /\ \E i, j, m, n \in 1..Len(arg2) :
          /\ IsSeasonTokenAt(arg2, i, j) /\ IsSeasonTokenAt(arg2, m, n)
          /\ j < m /\ n = m + 2 /\ arg2[m] = "s"
          /\ Slice(arg2, i, j) # Slice(arg2, m, n)
          /\ ret = arg1 \o <<"-">> \o Slice(arg2, m, n)

(***************************************************************************)
(* Claims about a run of main() and about clean_up                         *)
(***************************************************************************)
\* the first path component of a source directory relative to incoming_dir
FirstComponent(source_dir) ==
    IF Len(source_dir) = 0 THEN <<>> ELSE Head(source_dir)

\* C1: clean_up never removes a directory whose subtree holds, at any
\* depth, a file whose extension is in the video, audio, doc or other
\* strings: no such file is ever deleted.
C1_KnownFilesKept ==
    \A f \in removed : ~KnownExtension(f.name)

\* C2: when the move of a TV or movie file fails, the file is still at its
\* source path, nothing is appended to the clean-up list, and the loop goes
\* on with the next file.
C2_FailedMoveContained ==
    [][ ( /\ pc = "main" /\ listing # <<>>
          /\ listing' = Tail(listing)
          /\ last'.kind \in {"tv", "movie"}
          /\ ~last'.moved )
        => ( /\ Head(listing) \in in_files'
             /\ clean_up_list' = clean_up_list
             /\ pc' = "main" ) ]_vars

\* C2 witness: the move of a TV file has just failed, the file is at its
\* source path, and the loop has another file to process.
C2_Witness ==
    /\ pc = "main" /\ listing # <<>>
    /\ last.kind = "tv" /\ ~last.moved
    /\ last.file \in in_files
    /\ last.file.dir # <<>>

\* C3: a TV file whose move succeeded is at
\* tv_dir/show_name/season_tag/normalized_filename + lower-cased extension
\* and no longer at its source path, where normalized_filename is the stem
\* sanitised, cut after the season/episode marker and title-cased, and
\* show_name and season_tag are the resolver's results for it and the first
\* path component of the source directory.
C3_TvDestination ==
    (last.kind = "tv" /\ last.moved) =>
        LET f == last.file
            normalized ==
                Title(split_on_season(sanitise_string(SplitextRoot(f.name))))
            show_name == tv_show_name(FirstComponent(f.dir), normalized)
            season_tag == tv_show_name_season(show_name, normalized)
            destination ==
                <<show_name, season_tag,
                  normalized \o Lower(SplitextExt(f.name))>>
        IN  /\ f \notin in_files
            /\ [root |-> "tv", path |-> destination, src |-> f] \in library

\* C3 witness: an episode named with upper-case letters and extension was
\* moved out of a first-level directory.
C3_Witness ==
    /\ last.kind = "tv" /\ last.moved
    /\ last.file = File(<<DirA>>, NameUpper)

\* C4 as stated: the clean-up list holds exactly one entry per successful
\* move, the first path component of the file's source directory, the empty
\* string included for a file moved out of incoming_dir itself.
C4_OneEntryPerMove ==
    clean_up_list = [i \in 1..Len(moved) |-> FirstComponent(moved[i].file.dir)]

IsSubdirectory(first_relpath) == first_relpath # <<>>

\* C4 amended: the clean-up list holds, in the order of the moves, exactly
\* one entry per successful move of a file whose source directory lies below
\* incoming_dir, the first path component of that directory; a file moved out
\* of incoming_dir itself adds no entry, so the list never holds the empty
\* string.
C4_OneEntryPerSubdirectoryMove ==
    clean_up_list =
        SelectSeq([i \in 1..Len(moved) |-> FirstComponent(moved[i].file.dir)],
                  IsSubdirectory)

\* C4 witness: a file was moved out of a directory two levels down and
\* another out of incoming_dir itself.
C4_Witness ==
    /\ \E i \in 1..Len(moved) : Len(moved[i].file.dir) = 2
    /\ \E i \in 1..Len(moved) : moved[i].file.dir = <<>>

\* C5: clean_up skips the empty-string candidate wherever it comes in the
\* iteration: visiting it raises no error, and incoming_dir still exists.
C5_EmptyCandidateSkipped ==
    /\ <<>> \in in_dirs
    /\ first_level_dir = << <<>> >> =>
          pc \notin {"UnboundLocalError", "FileNotFoundError"}

\* the files of the subtree of directory d
SubtreeFiles(files, d) == {f \in files : IsPrefix(d, f.dir)}

\* the subtree of d holds files, and none with an extension in the video,
\* audio, doc or other strings
OnlyUnknownFiles(files, d) ==
    /\ SubtreeFiles(files, d) # {}
    /\ \A f \in SubtreeFiles(files, d) : ~KnownExtension(f.name)

\* C12: clean_up deletes every existing candidate directory whose subtree
\* holds files but none of a known type, whatever the layout of the files
\* and the order of the walk: when clean_up has returned, no candidate
\* directory of that kind is left.
C12_UnknownOnlyDeleted ==
    pc = "done" =>
        \A i \in 1..Len(clean_up_list) :
            LET candidate == clean_up_list[i]
            IN  (candidate # <<>> /\ <<candidate>> \in in_dirs) =>
                    ~OnlyUnknownFiles(in_files, <<candidate>>)

\* C13: a successful move never overwrites a file already at the
\* destination: two source files with the same destination path are not both
\* moved onto it, so every file that was moved is in the library, at the
\* path it was moved to and with its own content, for the rest of the run.
C13_MovedFilesKept ==
    \A i \in 1..Len(moved) :
        [root |-> moved[i].root, path |-> moved[i].path,
         src |-> moved[i].file] \in library

\* C9: video_file gives a filename exactly one of three outcomes, in this
\* order: TV processing if it holds S<digits>E<digits>, otherwise movie
\* processing if it holds four consecutive digits, otherwise nothing: the
\* file is not moved and nothing is appended to the clean-up list.
C9_OneOutcomeInOrder ==
    [][ ( /\ pc = "main" /\ listing # <<>>
          /\ IsVideo(Head(listing).name)
          /\ last' # last )
        => LET full_filename == Head(listing).name
           IN  /\ last'.file = Head(listing)
               /\ last'.kind =
                     IF SearchSeasonEpisode(full_filename) THEN "tv"
                     ELSE IF SearchYear(full_filename) THEN "movie"
                     ELSE "none"
               /\ last'.kind = "none" =>
                     /\ in_files' = in_files
                     /\ library' = library
                     /\ clean_up_list' = clean_up_list ]_vars

\* C9 witness: a file whose name holds both a year and a season/episode
\* marker was moved as a TV episode.
C9_Witness ==
    /\ last.kind = "tv" /\ last.moved
    /\ last.file.name = NameYearAndSeason
    /\ \E e \in library : e.root = "tv" /\ e.src = last.file

====
